---- MODULE Spec2Model ----
(***************************************************************************)
(* Quark: a pass-through filesystem with a predictive prefetch cache.      *)
(* The module models the byte cache and its fetch worker                   *)
(* (src/modules/fcache.py), the read handler and the control channel       *)
(* (src/quark.py) and the predictor the handler drives.                    *)
(*                                                                         *)
(* A path is a sequence of components; an absolute path starts with the    *)
(* component "/".  A file of the host is a record [exists, content]; an    *)
(* unlinked file keeps its content for the descriptors still open on it.   *)
(***************************************************************************)
EXTENDS Integers, Sequences, FiniteSets, TLC

\* ------------------------------------------------------------------ bounds
MaxFileLen == 2      \* longest file, in bytes
MaxLimit == 3        \* largest memory budget, in bytes
MaxChunk == 2        \* largest chunk size, in bytes
MaxQueue == 1        \* most requests waiting in the fetch queue
MaxMutations == 1    \* most truncate/unlink calls in one behaviour
MaxHistory == 4      \* most entries of the predictor's history
MaxSwgLogs == 6      \* most entries of the history of an SWG_Opt driven alone
MaxWindowLogs == 5   \* most paths logged by an adaptive predictor of a short window
MaxMarkovLogs == 5   \* most entries of the history of a Markov_Opt driven alone

\* FileCacheManager.__init__: chunk_size=1024 * 1024
DefaultChunk == 1048576

\* AdaptiveMarkov_Opt.__init__: history_length=5, learning_rate=0.1 = 1/10,
\* decay=0.9 = 9/10
history_length == 5
learning_rate_num == 1
learning_rate_den == 10
decay_num == 9
decay_den == 10

VARIABLES
    hostfs,              \* the host's files: path -> [exists, content]
    changed,             \* paths truncated or unlinked since the start
    memory_limit,        \* FileCacheManager.memory_limit
    chunk_size,          \* FileCacheManager.chunk_size
    cache,               \* FileCacheManager.cache, oldest entry first
    current_cache_size,  \* FileCacheManager.current_cache_size
    cache_lock,          \* FileCacheManager.cache_lock: "free" or its holder
    read_queue,          \* FileCacheManager.read_queue
    wpc,                 \* the fetch worker's position
    filepath,            \* the worker's local filepath
    file_data,           \* the worker's local file_data
    fpos,                \* offset of the worker's open file f
    chunk_len,           \* the worker's local chunk_len
    ret,                 \* what the last lookup, request or read returned
    root,                \* QuarkFS.root
    enable_opt,          \* QuarkFS.enable_opt
    history,             \* Base_Opt.history of the predictor
    transitions,         \* the predictor's model: SWG_Opt.graph or .transitions
    rpc,                 \* the position of the thread that handles read
    rargs,               \* the arguments of the read being handled
    rbuf,                \* the bytes the read being handled has obtained
    tpc,                 \* the position of a test program that drives the cache
    variant,             \* the class of the predictor QuarkFS was given
    self_order,          \* Markov_Opt.order
    self_history_length, \* AdaptiveMarkov_Opt.history_length
    fpc                  \* the filesystem threads that execute read at once

vars == <<hostfs, changed, memory_limit, chunk_size, cache, current_cache_size,
          cache_lock, read_queue, wpc, filepath, file_data, fpos, chunk_len, ret,
          root, enable_opt, history, transitions, rpc, rargs, rbuf, tpc, variant,
          self_order, self_history_length, fpc>>

fsVars == <<hostfs, changed>>
cfgVars == <<memory_limit, chunk_size, root, variant, self_order, self_history_length>>
optVars == <<history, transitions>>
readVars == <<enable_opt, rpc, rargs, rbuf, fpc>>
cacheVars == <<cache, current_cache_size, cache_lock>>
workerVars == <<wpc, filepath, file_data, fpos, chunk_len>>

\* ------------------------------------------------------------------- paths
RECURSIVE lstrip(_)
lstrip(p) == IF p # <<>> /\ Head(p) = "/" THEN lstrip(Tail(p)) ELSE p

join(a, b) == IF b # <<>> /\ Head(b) = "/" THEN b ELSE a \o b

full_path(partial) == join(root, lstrip(partial))

VPath(n) == <<"/", n>>

\* ------------------------------------------------------------------- files
NoPath == <<>>
Min(x, y) == IF x <= y THEN x ELSE y

NameCode(n) == CASE n = "a" -> 1 [] n = "b" -> 2 [] n = "c" -> 3 [] OTHER -> 4

\* The bytes a file starts with: files of up to ten bytes share no byte.
FileBytes(hp, n) ==
    [i \in 1..n |-> (IF Len(hp) > 2 THEN 100 ELSE 200) + 10 * NameCode(hp[Len(hp)]) + i]

exists(hp) == hp \in DOMAIN hostfs /\ hostfs[hp].exists

getsize(hp) == Len(hostfs[hp].content)

\* f.truncate(length): cut, or extend with zero bytes
Resize(content, length) ==
    IF length <= Len(content) THEN SubSeq(content, 1, length)
    ELSE content \o [i \in 1..(length - Len(content)) |-> 0]

\* ------------------------------------------------------------ OrderedDict
Keys(c) == {c[i].key : i \in 1..Len(c)}

Index(c, k) == CHOOSE i \in 1..Len(c) : c[i].key = k

Entry(c, k) == c[Index(c, k)]

Without(c, k) == SelectSeq(c, LAMBDA e : e.key # k)

\* OrderedDict.move_to_end(k, last=False): to the old end
move_to_end_first(c, k) == <<Entry(c, k)>> \o Without(c, k)

move_to_end(c, k) == Without(c, k) \o <<Entry(c, k)>>

RECURSIVE SumSizes(_)
SumSizes(c) == IF c = <<>> THEN 0 ELSE Head(c).size + SumSizes(Tail(c))

\* ---------------------------------------------------------- cache entries
NewEntry(k, data, n) == [key |-> k, data |-> data, size |-> n, live |-> TRUE]

\* lines 65-72 with the size of a resident entry set, not added to
InsertChunk_set(c, k, data, n) ==
    LET c1 == IF k \notin Keys(c)
              THEN c \o <<NewEntry(k, data, n)>>
              ELSE [c EXCEPT ![Index(c, k)].size = n]
    IN  move_to_end(c1, k)

\* lines 65-72: the first chunk of a path creates its entry around the buffer
\* file_data; a later chunk (or a chunk of a reload) only adds to 'size'.
InsertChunk(c, k, data, n) ==
    LET c1 == IF k \notin Keys(c)
              THEN c \o <<NewEntry(k, data, n)>>
              ELSE [c EXCEPT ![Index(c, k)].size = @ + n]
    IN  move_to_end(c1, k)

\* popitem(last=True): the youngest entry
popitem_last(c) == [removed |-> c[Len(c)], rest |-> SubSeq(c, 1, Len(c) - 1)]

\* line 75: popitem(last=False) removes and returns the oldest entry
popitem(c) == [removed |-> Head(c), rest |-> Tail(c)]

\* file_data = bytearray(): entries built around an older buffer keep it
Detach(c) == [i \in 1..Len(c) |-> [c[i] EXCEPT !.live = FALSE]]

\* file_data.extend(chunk): an entry built around file_data sees it grow
Extend(c, data) ==
    [i \in 1..Len(c) |-> IF c[i].live THEN [c[i] EXCEPT !.data = data] ELSE c[i]]

None == [op |-> "none"]

NoArgs == [path |-> NoPath, size |-> 0, offset |-> 0, hit |-> FALSE]

\* queue.Queue: put at the tail, get from the head
put(q, item) == Append(q, item)

\* a get that takes the item put last
get_last(q) == [item |-> q[Len(q)], rest |-> SubSeq(q, 1, Len(q) - 1)]

get(q) == [item |-> Head(q), rest |-> Tail(q)]

\* ------------------------------------------------------------ fetch worker
\* lines 44-47: take a request; a path that does not exist is dropped.
\* At "get" the worker waits on the queue, filepath still bound to the item
\* it has finished with.
W_get ==
    /\ wpc = "get"
    /\ read_queue # <<>>
    /\ read_queue' = get(read_queue).rest
    /\ filepath' = get(read_queue).item
    /\ wpc' = IF exists(get(read_queue).item) THEN "check" ELSE "get"
    /\ UNCHANGED <<optVars, readVars, tpc>>
    /\ UNCHANGED <<fsVars, cfgVars, cacheVars, file_data, fpos, chunk_len, ret>>

\* lines 49-52: a resident path whose size is that of the file is only touched.
\* os.path.getsize raises when the file is gone: the worker thread ends.
W_check ==
    /\ wpc = "check"
    /\ cache_lock = "free"
    /\ IF filepath \in Keys(cache)
       THEN IF ~exists(filepath)
            THEN wpc' = "dead" /\ UNCHANGED cache
            ELSE IF getsize(filepath) = Entry(cache, filepath).size
                 THEN cache' = move_to_end(cache, filepath) /\ wpc' = "get"
                 ELSE wpc' = "open" /\ UNCHANGED cache
       ELSE wpc' = "open" /\ UNCHANGED cache
    /\ UNCHANGED <<optVars, readVars, tpc>>
    /\ UNCHANGED <<filepath, fsVars, cfgVars, current_cache_size, cache_lock, read_queue,
                   file_data, fpos, chunk_len, ret>>

\* lines 54-55: open raises when the file is gone; file_data is a new buffer
W_open ==
    /\ wpc = "open"
    /\ IF exists(filepath)
       THEN /\ wpc' = "read"
            /\ file_data' = <<>>
            /\ fpos' = 0
            /\ cache' = Detach(cache)
       ELSE /\ wpc' = "dead"
            /\ UNCHANGED <<cache, file_data, fpos>>
    /\ UNCHANGED <<optVars, readVars, tpc>>
    /\ UNCHANGED <<filepath, fsVars, cfgVars, current_cache_size, cache_lock, read_queue,
                   chunk_len, ret>>

\* lines 57-62: read one chunk of the open file and append it to file_data;
\* at the end of the file the load is over and the locals are dead
W_read ==
    /\ wpc = "read"
    /\ LET content == hostfs[filepath].content
           chunk == SubSeq(content, fpos + 1, Min(fpos + chunk_size, Len(content)))
       IN  IF chunk = <<>>
           THEN /\ wpc' = "get"
                /\ file_data' = <<>>
                /\ fpos' = 0
                /\ chunk_len' = 0
                /\ cache' = Detach(cache)
           ELSE /\ wpc' = "insert"
                /\ file_data' = file_data \o chunk
                /\ fpos' = fpos + Len(chunk)
                /\ chunk_len' = Len(chunk)
                /\ cache' = Extend(cache, file_data \o chunk)
    /\ UNCHANGED <<optVars, readVars, tpc>>
    /\ UNCHANGED <<filepath, fsVars, cfgVars, current_cache_size, cache_lock, read_queue, ret>>

\* lines 64-72: take the lock, count the chunk, make the path the youngest
W_insert ==
    /\ wpc = "insert"
    /\ cache_lock = "free"
    /\ cache_lock' = "worker"
    /\ cache' = InsertChunk(cache, filepath, file_data, chunk_len)
    /\ current_cache_size' = current_cache_size + chunk_len
    /\ wpc' = "evict"
    /\ UNCHANGED <<optVars, readVars, tpc>>
    /\ UNCHANGED <<fsVars, cfgVars, read_queue, filepath, file_data, fpos, chunk_len, ret>>

\* lines 74-78 with 'if' for 'while': at most one entry is evicted
W_evict_if ==
    /\ wpc = "evict"
    /\ IF current_cache_size > memory_limit /\ cache # <<>>
       THEN /\ cache' = popitem(cache).rest
            /\ current_cache_size' = current_cache_size - popitem(cache).removed.size
       ELSE UNCHANGED <<cache, current_cache_size>>
    /\ wpc' = "read"
    /\ cache_lock' = "free"
    /\ UNCHANGED <<optVars, readVars, tpc>>
    /\ UNCHANGED <<fsVars, cfgVars, read_queue, filepath, file_data, fpos, chunk_len, ret>>

\* lines 74-78 with the lock kept when the loop ends
W_evict_keeps_lock ==
    /\ wpc = "evict"
    /\ IF current_cache_size > memory_limit /\ cache # <<>>
       THEN /\ cache' = popitem(cache).rest
            /\ current_cache_size' = current_cache_size - popitem(cache).removed.size
            /\ UNCHANGED <<wpc, cache_lock>>
       ELSE /\ wpc' = "read"
            /\ UNCHANGED <<cache, current_cache_size, cache_lock>>
    /\ UNCHANGED <<optVars, readVars, tpc>>
    /\ UNCHANGED <<fsVars, cfgVars, read_queue, filepath, file_data, fpos, chunk_len, ret>>

\* lines 74-78: one turn of the eviction loop, or its end and the lock's release.
\* popitem on an empty OrderedDict raises KeyError: the worker thread ends.
W_evict ==
    /\ wpc = "evict"
    /\ IF current_cache_size > memory_limit
       THEN IF cache = <<>>
            THEN /\ wpc' = "dead"
                 /\ cache_lock' = "free"
                 /\ UNCHANGED <<cache, current_cache_size>>
            ELSE /\ cache' = popitem(cache).rest
                 /\ current_cache_size' = current_cache_size - popitem(cache).removed.size
                 /\ UNCHANGED <<wpc, cache_lock>>
       ELSE /\ wpc' = "read"
            /\ cache_lock' = "free"
            /\ UNCHANGED <<cache, current_cache_size>>
    /\ UNCHANGED <<optVars, readVars, tpc>>
    /\ UNCHANGED <<fsVars, cfgVars, read_queue, filepath, file_data, fpos, chunk_len, ret>>

Worker == W_get \/ W_check \/ W_open \/ W_read \/ W_insert \/ W_evict

\* ------------------------------------------------------------- cache calls
\* request_file without the size check of lines 19-21
RequestFile_no_limit(c, q, fp) ==
    IF ~exists(fp) THEN [cache |-> c, queue |-> q, raised |-> TRUE]
    ELSE IF fp \in Keys(c)
         THEN [cache |-> move_to_end(c, fp), queue |-> q, raised |-> FALSE]
         ELSE [cache |-> c, queue |-> put(q, fp), raised |-> FALSE]

\* FileCacheManager.request_file, lines 18-27, on the cache c and the queue q:
\* os.path.getsize raises for a path that does not exist; a file larger than
\* the budget is refused; a resident path is touched; any other is queued.
RequestFile(c, q, fp) ==
    IF ~exists(fp) THEN [cache |-> c, queue |-> q, raised |-> TRUE]
    ELSE IF getsize(fp) > memory_limit THEN [cache |-> c, queue |-> q, raised |-> FALSE]
    ELSE IF fp \in Keys(c)
         THEN [cache |-> move_to_end(c, fp), queue |-> q, raised |-> FALSE]
         ELSE [cache |-> c, queue |-> put(q, fp), raised |-> FALSE]

\* the call takes the cache lock unless it returns before line 23
NeedsLock(fp) == exists(fp) /\ getsize(fp) <= memory_limit

request_file(fp) ==
    /\ NeedsLock(fp) => cache_lock = "free"
    /\ LET r == RequestFile(cache, read_queue, fp)
       IN  /\ cache' = r.cache
           /\ read_queue' = r.queue
    /\ UNCHANGED <<optVars, readVars>>
    /\ UNCHANGED <<fsVars, cfgVars, current_cache_size, cache_lock, workerVars, ret>>

\* FileCacheManager.is_in_cache: the entry's buffer and its recorded size
LookupValue(c, fp) ==
    IF fp \in Keys(c)
    THEN [kind |-> "entry", data |-> Entry(c, fp).data, size |-> Entry(c, fp).size]
    ELSE [kind |-> "none", data |-> <<>>, size |-> 0]

is_in_cache(fp) ==
    /\ cache_lock = "free"
    /\ ret' = [op |-> "is_in_cache", path |-> fp, val |-> LookupValue(cache, fp)]
    /\ UNCHANGED <<optVars, readVars>>
    /\ UNCHANGED <<fsVars, cfgVars, cacheVars, read_queue, workerVars>>

\* ------------------------------------------------- changes of the backing files
\* QuarkFS.truncate
truncate(path, length) ==
    /\ Cardinality(changed) < MaxMutations
    /\ exists(full_path(path))
    /\ full_path(path) \notin changed
    /\ length # getsize(full_path(path))
    /\ hostfs' = [hostfs EXCEPT ![full_path(path)].content = Resize(@, length)]
    /\ changed' = changed \cup {full_path(path)}
    /\ UNCHANGED <<optVars, readVars, tpc>>
    /\ UNCHANGED <<cfgVars, cacheVars, read_queue, workerVars, ret>>

\* QuarkFS.unlink
unlink(path) ==
    /\ Cardinality(changed) < MaxMutations
    /\ exists(full_path(path))
    /\ full_path(path) \notin changed
    /\ hostfs' = [hostfs EXCEPT ![full_path(path)].exists = FALSE]
    /\ changed' = changed \cup {full_path(path)}
    /\ UNCHANGED <<optVars, readVars, tpc>>
    /\ UNCHANGED <<cfgVars, cacheVars, read_queue, workerVars, ret>>

\* ------------------------------------------------------------- predictor
\* Base_Opt.last_file_read(other_than=None).  NoPath stands for None.
RECURSIVE LastOtherThan(_, _)
LastOtherThan(h, other) ==
    IF h = <<>> THEN NoPath
    ELSE IF h[Len(h)] # other THEN h[Len(h)]
    ELSE LastOtherThan(SubSeq(h, 1, Len(h) - 1), other)

last_file_read(h, other_than) ==
    IF h = <<>> THEN NoPath
    ELSE IF other_than = NoPath THEN h[Len(h)]
    ELSE LastOtherThan(h, other_than)

RECURSIVE Pow(_, _)
Pow(b, e) == IF e = 0 THEN 1 ELSE b * Pow(b, e - 1)

\* the last n items of a list: list[-n:]
LastN(h, n) == SubSeq(h, Len(h) - Min(n, Len(h)) + 1, Len(h))

\* decay ** e as a multiple of 1 / decay_den ** (history_length - 1)
Influence(e) == Pow(decay_num, e) * Pow(decay_den, history_length - 1 - e)

\* A dict of dicts in insertion order is a list of edges [src, dst, w], each
\* weight a multiple of 1 / (learning_rate_den * decay_den ** (history_length - 1)).
HasEdge(t, src, dst) == \E i \in 1..Len(t) : t[i].src = src /\ t[i].dst = dst

\* transitions[src][dst] += w
AddWeight(t, src, dst, w) ==
    IF HasEdge(t, src, dst)
    THEN [i \in 1..Len(t) |->
             IF t[i].src = src /\ t[i].dst = dst THEN [t[i] EXCEPT !.w = @ + w] ELSE t[i]]
    ELSE Append(t, [src |-> src, dst |-> dst, w |-> w])

\* AdaptiveMarkov_Opt.log_read, lines 31-35: the loop over the window, from
\* its item i on
RECURSIVE UpdateFrom(_, _, _, _)
UpdateFrom(t, window, i, file_read) ==
    IF i > Len(window) THEN t
    ELSE UpdateFrom(IF window[i] # file_read
                    THEN AddWeight(t, window[i], file_read,
                                   learning_rate_num * Influence(Len(window) - i))
                    ELSE t,
                    window, i + 1, file_read)

\* a log_read whose window is the whole history
log_read_whole_history(h, t, file_read) ==
    [history |-> Append(h, file_read),
     transitions |-> UpdateFrom(t, LastN(h, history_length), 1, file_read)]

\* AdaptiveMarkov_Opt.log_read: the new [history, transitions]
log_read(h, t, file_read) ==
    [history |-> Append(h, file_read),
     transitions |-> UpdateFrom(t, LastN(h, self_history_length), 1, file_read)]

\* scores[k] += v, scores a dict in insertion order
AddScore(sc, k, v) ==
    IF \E i \in 1..Len(sc) : sc[i].k = k
    THEN [i \in 1..Len(sc) |-> IF sc[i].k = k THEN [sc[i] EXCEPT !.v = @ + v] ELSE sc[i]]
    ELSE Append(sc, [k |-> k, v |-> v])

\* lines 51-61: the transitions of one item of the window, from edge j on
RECURSIVE ScoreEdges(_, _, _, _, _)
ScoreEdges(sc, t, j, hist_file, influence) ==
    IF j > Len(t) THEN sc
    ELSE ScoreEdges(IF t[j].src = hist_file
                    THEN AddScore(sc, t[j].dst, t[j].w * influence)
                    ELSE sc,
                    t, j + 1, hist_file, influence)

RECURSIVE ScoreWindow(_, _, _, _)
ScoreWindow(sc, t, window, i) ==
    IF i > Len(window) THEN sc
    ELSE ScoreWindow(ScoreEdges(sc, t, 1, window[i], Influence(Len(window) - i)),
                     t, window, i + 1)

\* sorted(scores.items(), key=score, reverse=True)[:n]: the sort is stable
RECURSIVE TopN(_, _)
TopN(sc, n) ==
    IF n = 0 \/ sc = <<>> THEN <<>>
    ELSE LET best == CHOOSE i \in 1..Len(sc) :
                        /\ \A j \in 1..Len(sc) : sc[j].v <= sc[i].v
                        /\ \A j \in 1..(i - 1) : sc[j].v < sc[i].v
         IN  <<sc[best].k>> \o TopN(SelectSeq(sc, LAMBDA e : e.k # sc[best].k), n - 1)

\* a predict_nexts that leaves the current file among the scores
predict_nexts_keeps_current(h, t, file_read, num_predictions) ==
    LET context == IF file_read # NoPath /\ (h = <<>> \/ h[Len(h)] # file_read)
                   THEN Append(h, file_read) ELSE h
    IN  IF context = <<>> THEN <<>>
        ELSE TopN(ScoreWindow(<<>>, t, LastN(context, self_history_length), 1),
                  num_predictions)

\* a predict_nexts whose list of two has the best path last
predict_nexts_best_last(h, t, file_read, num_predictions) ==
    LET context == IF file_read # NoPath /\ (h = <<>> \/ h[Len(h)] # file_read)
                   THEN Append(h, file_read) ELSE h
    IN  IF context = <<>> THEN <<>>
        ELSE LET scores == ScoreWindow(<<>>, t, LastN(context, self_history_length), 1)
                 current == context[Len(context)]
                 top == TopN(SelectSeq(scores, LAMBDA e : e.k # current), num_predictions)
             IN  IF Len(top) = 2 THEN <<top[2], top[1]>> ELSE top

\* AdaptiveMarkov_Opt.predict_nexts: the list of predictions, <<>> for None
\* (for num_predictions = 1 the one path the code returns is the list's item)
predict_nexts(h, t, file_read, num_predictions) ==
    LET context == IF file_read # NoPath /\ (h = <<>> \/ h[Len(h)] # file_read)
                   THEN Append(h, file_read) ELSE h
    IN  IF context = <<>> THEN <<>>
        ELSE LET scores == ScoreWindow(<<>>, t, LastN(context, self_history_length), 1)
                 current == context[Len(context)]
             IN  TopN(SelectSeq(scores, LAMBDA e : e.k # current), num_predictions)

\* ---------------------------------------------- successor-graph predictor
\* SWG_Opt.graph, a dict of dicts in insertion order, is a list of edges
\* [src, dst, w].
\* a log_read that takes the entry logged before, the same path or not
SWG_log_read_last(h, g, file_read) ==
    LET h1 == Append(h, file_read)
        last == IF h = <<>> THEN NoPath ELSE h[Len(h)]
    IN  [history |-> h1,
         transitions |-> IF last # NoPath THEN AddWeight(g, last, file_read, 1) ELSE g]

\* SWG_Opt.log_read: the new [history, transitions]
SWG_log_read(h, g, file_read) ==
    LET h1 == Append(h, file_read)
        last == last_file_read(h1, file_read)
    IN  [history |-> h1,
         transitions |-> IF last # NoPath THEN AddWeight(g, last, file_read, 1) ELSE g]

\* a max that keeps the last key of the greatest value
FirstMax_last(edges) ==
    IF edges = <<>> THEN NoPath
    ELSE LET best == CHOOSE i \in 1..Len(edges) :
                        /\ \A j \in 1..Len(edges) : edges[j].w <= edges[i].w
                        /\ \A j \in (i + 1)..Len(edges) : edges[j].w < edges[i].w
         IN  edges[best].dst

\* max(d, key=d.get): the first key of the greatest value, NoPath if there
\* is none
FirstMax(edges) ==
    IF edges = <<>> THEN NoPath
    ELSE LET best == CHOOSE i \in 1..Len(edges) :
                        /\ \A j \in 1..Len(edges) : edges[j].w <= edges[i].w
                        /\ \A j \in 1..(i - 1) : edges[j].w < edges[i].w
         IN  edges[best].dst

\* a predict_nexts that wants an edge seen more than once
SWG_predict_nexts_seen_twice(g, file_read) ==
    IF \E i \in 1..Len(g) : g[i].src = file_read /\ g[i].w > 1
    THEN FirstMax(SelectSeq(g, LAMBDA e : e.src = file_read))
    ELSE NoPath

\* SWG_Opt.predict_nexts: a path, or NoPath for None
SWG_predict_nexts(g, file_read) ==
    IF \E i \in 1..Len(g) : g[i].src = file_read
    THEN FirstMax(SelectSeq(g, LAMBDA e : e.src = file_read))
    ELSE NoPath

\* ------------------------------------------------- decayed Markov predictor
\* Markov_Opt.__init__: order=3, decay_factor=0.95 = 19/20
order == 3
decay_factor_num == 19
decay_factor_den == 20

\* Markov_Opt.transitions, a dict of Counters, is a list of edges
\* [src, dst, w], src a context (a tuple of paths) and w the count as a
\* multiple of 1 / decay_factor_den ** MaxMarkovLogs: a count is decayed less
\* than MaxMarkovLogs times.
CountOne == Pow(decay_factor_den, MaxMarkovLogs)

\* a context that is the whole history, however long
get_context_all(h, n) == h

\* Markov_Opt._get_context(n), for n > 0
get_context(h, n) == LastN(h, n)

\* lines 38-40: the counts of the context's other destinations decay (a
\* count is a multiple of decay_factor_den as long as it can decay)
Decay(t, context, file_read) ==
    [j \in 1..Len(t) |->
        IF t[j].src = context /\ t[j].dst # file_read
        THEN [t[j] EXCEPT !.w = (@ \div decay_factor_den) * decay_factor_num]
        ELSE t[j]]

\* lines 33-40: the loop over the context lengths, from length i on
RECURSIVE MarkovUpdate(_, _, _, _)
MarkovUpdate(t, h, i, file_read) ==
    IF i > Min(self_order, Len(h)) THEN t
    ELSE MarkovUpdate(Decay(AddWeight(t, get_context(h, i), file_read, CountOne),
                            get_context(h, i), file_read),
                      h, i + 1, file_read)

\* Markov_Opt.log_read: the new [history, transitions]
Markov_log_read(h, t, file_read) ==
    [history |-> Append(h, file_read),
     transitions |-> MarkovUpdate(t, h, 1, file_read)]

\* lines 63-76: the most common destination of the longest context that has
\* transitions, from context length n down
RECURSIVE MarkovByContext(_, _, _)
MarkovByContext(h, t, n) ==
    IF n = 0 THEN NoPath
    ELSE LET context == get_context(h, n)
             edges == SelectSeq(t, LAMBDA e : e.src = context)
         IN  IF context # <<>> /\ edges # <<>>
             THEN FirstMax(edges)
             ELSE MarkovByContext(h, t, n - 1)

\* lines 79-81: the counts of every destination, summed over the contexts
RECURSIVE AllFiles(_, _, _)
AllFiles(sc, t, j) ==
    IF j > Len(t) THEN sc
    ELSE AllFiles(AddScore(sc, t[j].dst, t[j].w), t, j + 1)

\* a predict_nexts that falls back to the first successor the table got
Markov_predict_nexts_first_seen(h, t, file_read) ==
    LET l == IF file_read # NoPath THEN Markov_log_read(h, t, file_read)
             ELSE [history |-> h, transitions |-> t]
        by_context == MarkovByContext(l.history, l.transitions, self_order)
        all_files == AllFiles(<<>>, l.transitions, 1)
    IN  [history |-> l.history, transitions |-> l.transitions,
         prediction |-> IF by_context # NoPath THEN by_context
                        ELSE IF all_files = <<>> THEN NoPath
                        ELSE all_files[1].k]

\* a predict_nexts that asks the context of one entry before the longer ones
Markov_predict_nexts_shortest(h, t, file_read) ==
    LET l == IF file_read # NoPath THEN Markov_log_read(h, t, file_read)
             ELSE [history |-> h, transitions |-> t]
        one == MarkovByContext(l.history, l.transitions, 1)
        by_context == IF one # NoPath THEN one
                      ELSE MarkovByContext(l.history, l.transitions, self_order)
        all_files == AllFiles(<<>>, l.transitions, 1)
    IN  [history |-> l.history, transitions |-> l.transitions,
         prediction |-> IF by_context # NoPath THEN by_context
                        ELSE IF all_files = <<>> THEN NoPath
                        ELSE TopN(all_files, 1)[1]]

\* a predict_nexts that gives the file read back when it has nothing else
Markov_predict_nexts_echo(h, t, file_read) ==
    LET l == IF file_read # NoPath THEN Markov_log_read(h, t, file_read)
             ELSE [history |-> h, transitions |-> t]
        by_context == MarkovByContext(l.history, l.transitions, self_order)
    IN  [history |-> l.history, transitions |-> l.transitions,
         prediction |-> IF by_context # NoPath THEN by_context ELSE file_read]

\* Markov_Opt.predict_nexts: the new [history, transitions] and the
\* prediction, NoPath for None
Markov_predict_nexts(h, t, file_read) ==
    LET l == IF file_read # NoPath THEN Markov_log_read(h, t, file_read)
             ELSE [history |-> h, transitions |-> t]
        by_context == MarkovByContext(l.history, l.transitions, self_order)
        all_files == AllFiles(<<>>, l.transitions, 1)
    IN  [history |-> l.history, transitions |-> l.transitions,
         prediction |-> IF by_context # NoPath THEN by_context
                        ELSE IF all_files = <<>> THEN NoPath
                        ELSE TopN(all_files, 1)[1]]

\* ------------------------------------------------ the predictor QuarkFS holds
Variants == {"SWG_Opt", "Markov_Opt", "AdaptiveMarkov_Opt"}

\* OPTM.log_read(file_read)
OPTM_log_read(v, h, t, file_read) ==
    CASE v = "SWG_Opt" -> SWG_log_read(h, t, file_read)
      [] v = "Markov_Opt" -> Markov_log_read(h, t, file_read)
      [] v = "AdaptiveMarkov_Opt" -> log_read(h, t, file_read)

\* the parameters that predict_nexts of the class takes after self: only
\* AdaptiveMarkov_Opt has num_predictions
PredictParams(v) == IF v = "AdaptiveMarkov_Opt" THEN 2 ELSE 1

AsList(path) == IF path = NoPath THEN <<>> ELSE <<path>>

\* OPTM.predict_nexts(file_read) with nargs = 1, and
\* OPTM.predict_nexts(file_read, num_predictions) with nargs = 2: the new
\* [history, transitions], the predictions as a list, and whether the call
\* raised (TypeError for an argument the method does not take)
OPTM_predict_nexts(v, h, t, file_read, num_predictions, nargs) ==
    IF nargs > PredictParams(v)
    THEN [history |-> h, transitions |-> t, predictions |-> <<>>, raised |-> TRUE]
    ELSE CASE v = "SWG_Opt" ->
                [history |-> h, transitions |-> t, raised |-> FALSE,
                 predictions |-> AsList(SWG_predict_nexts(t, file_read))]
           [] v = "Markov_Opt" ->
                LET m == Markov_predict_nexts(h, t, file_read)
                IN  [history |-> m.history, transitions |-> m.transitions,
                     raised |-> FALSE, predictions |-> AsList(m.prediction)]
           [] v = "AdaptiveMarkov_Opt" ->
                [history |-> h, transitions |-> t, raised |-> FALSE,
                 predictions |-> predict_nexts(h, t, file_read,
                                               IF nargs = 2 THEN num_predictions ELSE 1)]

\* ------------------------------------------------------------ read handler
\* data[offset:offset+size]
Slice(data, offset, size) == SubSeq(data, offset + 1, Min(offset + size, Len(data)))

\* FileCacheManager.read_cache(path, size, offset), the byte-range lookup the
\* handler calls: the slice of a resident path's buffer, touching recency
read_cache(c, path, size, offset) ==
    IF path \in Keys(c)
    THEN [cache |-> move_to_end(c, path),
          buf |-> Slice(Entry(c, path).data, offset, size)]
    ELSE [cache |-> c, buf |-> <<>>]

\* os.lseek(fh, offset); os.read(fh, size) on the descriptor QuarkFS.open got
os_read(path, size, offset) == Slice(hostfs[full_path(path)].content, offset, size)

\* QuarkFS.read, lines 70-78: the cached slice if there is one, the bytes
\* of the backing file otherwise
R_read(path, size, offset) ==
    /\ rpc = "idle"
    /\ cache_lock = "free"
    /\ Len(history) < MaxHistory \/ last_file_read(history, NoPath) = path
    /\ exists(full_path(path))
    /\ LET r == read_cache(cache, path, size, offset)
       IN  /\ cache' = r.cache
           /\ rbuf' = IF r.buf # <<>> THEN r.buf ELSE os_read(path, size, offset)
    /\ rargs' = [path |-> path, size |-> size, offset |-> offset,
                 hit |-> read_cache(cache, path, size, offset).buf # <<>>]
    /\ rpc' = "log"
    /\ ret' = None
    /\ UNCHANGED <<fsVars, cfgVars, current_cache_size, cache_lock, read_queue,
                   workerVars, optVars, enable_opt, tpc, fpc>>

\* lines 67-68: request_file for each prediction, until one raises
RECURSIVE RequestAll(_, _, _)
RequestAll(c, q, preds) ==
    IF preds = <<>> THEN [cache |-> c, queue |-> q, raised |-> FALSE]
    ELSE LET r == RequestFile(c, q, Head(preds))
         IN  IF r.raised THEN r ELSE RequestAll(r.cache, r.queue, Tail(preds))

\* a read that calls log_predict only when the cache did not serve it
log_predict_called_on_miss(hit) == ~hit

\* lines 74-79: both branches of the read call log_predict, the hit one at
\* line 75 and the miss one at line 79
log_predict_called(hit) == TRUE

\* a log_predict that logs every read
ShouldLog_always(h, path) == TRUE

\* line 57: the read is logged when its path is not the last one logged
ShouldLog(h, path) == last_file_read(h, NoPath) # path

\* a log_predict that predicts with optimizations disabled
ShouldPredict_always(logs, enabled) == logs

\* lines 57-60: predict_nexts is called inside the branch that logs, when
\* optimizations are enabled
ShouldPredict(logs, enabled) == logs /\ enabled

\* the queue has room for MaxQueue requests and for the predictions of one
\* read at least
QueueRoom(preds) == IF Len(preds) > MaxQueue THEN Len(preds) ELSE MaxQueue

\* QuarkFS.read.log_predict, lines 56-68, and the return of read
R_log_predict ==
    /\ rpc = "log"
    /\ LET logs == log_predict_called(rargs.hit) /\ ShouldLog(history, rargs.path)
           l == IF logs THEN OPTM_log_read(variant, history, transitions, rargs.path)
                ELSE [history |-> history, transitions |-> transitions]
           predicts == ShouldPredict(logs, enable_opt)
           p == IF predicts
                THEN OPTM_predict_nexts(variant, l.history, l.transitions, rargs.path, 2, 2)
                ELSE [history |-> l.history, transitions |-> l.transitions,
                      predictions |-> <<>>, raised |-> FALSE]
           r == RequestAll(cache, read_queue, p.predictions)
       IN  /\ (\E i \in 1..Len(p.predictions) : NeedsLock(p.predictions[i])) =>
                  cache_lock = "free"
           /\ Len(r.queue) <= QueueRoom(p.predictions)
           /\ history' = p.history
           /\ transitions' = p.transitions
           /\ cache' = r.cache
           /\ read_queue' = r.queue
           /\ ret' = [op |-> "read", path |-> rargs.path, size |-> rargs.size,
                      offset |-> rargs.offset, enabled |-> enable_opt,
                      hit |-> rargs.hit,
                      logged |-> logs, predicted |-> predicts,
                      predictions |-> p.predictions,
                      type_error |-> p.raised,
                      raised |-> p.raised \/ r.raised, val |-> rbuf]
    /\ rpc' = "idle"
    /\ rargs' = NoArgs
    /\ rbuf' = <<>>
    /\ UNCHANGED <<fsVars, cfgVars, current_cache_size, cache_lock, workerVars,
                   enable_opt, tpc, fpc>>

\* QuarkFS._log_cache, lines 34-36: the command 'enable'
enable ==
    /\ enable_opt' = ~enable_opt
    /\ UNCHANGED <<fsVars, cfgVars, cacheVars, read_queue, workerVars, optVars,
                   rpc, rargs, rbuf, ret, tpc, fpc>>

\* ----------------------------------------------------------- the cache alone
CacheNames == {"a", "b", "c"}

InitLen(n) == IF n = "b" THEN {MaxFileLen} ELSE IF n = "c" THEN {0, 1} ELSE {1}

InitCacheManager ==
    /\ cache = <<>>
    /\ current_cache_size = 0
    /\ cache_lock = "free"
    /\ read_queue = <<>>
    /\ wpc = "get"
    /\ filepath = NoPath
    /\ file_data = <<>>
    /\ fpos = 0
    /\ chunk_len = 0
    /\ ret = None
    /\ enable_opt = FALSE
    /\ history = <<>>
    /\ transitions = <<>>
    /\ rpc = "idle"
    /\ rargs = NoArgs
    /\ rbuf = <<>>

Init ==
    /\ root = <<"/", "R">>
    /\ \E lens \in [CacheNames -> 0..MaxFileLen] :
          /\ \A n \in CacheNames : lens[n] \in InitLen(n)
          /\ hostfs = [hp \in {full_path(VPath(n)) : n \in CacheNames} |->
                          [exists |-> TRUE,
                           content |-> FileBytes(hp, lens[hp[Len(hp)]])]]
    /\ changed = {}
    /\ InitCacheManager
    /\ memory_limit \in 0..MaxLimit
    /\ chunk_size \in 1..MaxChunk
    /\ tpc = "none"
    /\ fpc = <<>>
    /\ variant = "AdaptiveMarkov_Opt"
    /\ self_order = order
    /\ self_history_length = history_length

Request == \E fp \in DOMAIN hostfs :
    /\ request_file(fp)
    /\ Len(read_queue') <= MaxQueue
    /\ UNCHANGED tpc
Truncate == \E fp \in DOMAIN hostfs, length \in 0..MaxFileLen :
                truncate(VPath(fp[Len(fp)]), length)
Unlink == \E fp \in DOMAIN hostfs : unlink(VPath(fp[Len(fp)]))

Next == Worker \/ Request \/ Truncate \/ Unlink

Spec == Init /\ [][Next]_vars

\* ------------------------------------------------------ the mounted filesystem
ReadNames == {"a", "b"}

ReadLen(n) == IF n = "b" THEN MaxFileLen ELSE 1

\* The source directory is "/" (a virtual path is the host's path of its
\* file), or it is "/R", and then the host may have other files at the paths
\* the virtual paths spell.
InitRead ==
    /\ root \in {<<"/">>, <<"/", "R">>}
    /\ \E raw \in BOOLEAN :
          hostfs = [hp \in {full_path(VPath(n)) : n \in ReadNames}
                           \cup (IF raw THEN {VPath(n) : n \in ReadNames} ELSE {}) |->
                       [exists |-> TRUE, content |-> FileBytes(hp, ReadLen(hp[Len(hp)]))]]
    /\ changed = {}
    /\ InitCacheManager
    /\ memory_limit \in 0..MaxLimit
    /\ chunk_size \in 1..MaxChunk
    /\ tpc = "none"
    /\ fpc = <<>>
    /\ variant \in Variants
    /\ self_order = order
    /\ self_history_length = history_length

Read == \E n \in ReadNames, size \in 1..MaxFileLen, offset \in 0..MaxFileLen :
            R_read(VPath(n), size, offset)

NextRead == Worker \/ Read \/ R_log_predict \/ enable

SpecRead == InitRead /\ [][NextRead]_vars

\* ------------------------------------- reads that give several predictions
\* Three files of one byte, a budget of one byte, and the adaptive predictor:
\* a read can predict two files.
MultiNames == {"a", "b", "c"}

InitMulti ==
    /\ root = <<"/">>
    /\ hostfs = [hp \in {VPath(n) : n \in MultiNames} |->
                    [exists |-> TRUE, content |-> FileBytes(hp, 1)]]
    /\ changed = {}
    /\ InitCacheManager
    /\ memory_limit = 1
    /\ chunk_size = 1
    /\ tpc = "none"
    /\ fpc = <<>>
    /\ variant = "AdaptiveMarkov_Opt"
    /\ self_order = order
    /\ self_history_length = history_length

ReadMulti == \E n \in MultiNames : R_read(VPath(n), 1, 0)

NextMulti == Worker \/ ReadMulti \/ R_log_predict \/ enable

SpecMulti == InitMulti /\ [][NextMulti]_vars

\* ------------------------------------------------- a scenario of LRU eviction
\* Four files of LruFileLen bytes and a budget of three of them.  The test
\* requests a, b and c, waits for the worker to have cached them, looks a
\* up, and requests d.
LruFileLen == 100

LruPath(n) == full_path(VPath(n))

InitLru ==
    /\ root = <<"/", "R">>
    /\ hostfs = [hp \in {LruPath(n) : n \in {"a", "b", "c", "d"}} |->
                    [exists |-> TRUE, content |-> FileBytes(hp, LruFileLen)]]
    /\ changed = {}
    /\ InitCacheManager
    /\ memory_limit = 3 * LruFileLen
    /\ chunk_size \in {LruFileLen \div 2, LruFileLen, DefaultChunk}
    /\ tpc = "request a"
    /\ fpc = <<>>
    /\ variant = "AdaptiveMarkov_Opt"
    /\ self_order = order
    /\ self_history_length = history_length

WorkerIdle == wpc = "get" /\ read_queue = <<>>

T_request(n, next) ==
    /\ tpc = "request " \o n
    /\ request_file(LruPath(n))
    /\ tpc' = next

T_lookup ==
    /\ tpc = "lookup a"
    /\ WorkerIdle
    /\ Keys(cache) = {LruPath("a"), LruPath("b"), LruPath("c")}
    /\ is_in_cache(LruPath("a"))
    /\ tpc' = "request d"

Test ==
    \/ T_request("a", "request b")
    \/ T_request("b", "request c")
    \/ T_request("c", "lookup a")
    \/ T_lookup
    \/ T_request("d", "done")

NextLru == Worker \/ Test

SpecLru == InitLru /\ [][NextLru]_vars

\* ------------------------------------------- requests ahead of the worker
\* A test that makes MaxRequests requests for files that fit the budget and
\* do not change; tpc counts the requests made.
MaxRequests == 3

InitFifo ==
    /\ root = <<"/", "R">>
    /\ hostfs = [hp \in {LruPath("a"), LruPath("b")} |->
                    [exists |-> TRUE,
                     content |-> FileBytes(hp, IF hp = LruPath("a") THEN 1 ELSE MaxFileLen)]]
    /\ changed = {}
    /\ InitCacheManager
    /\ memory_limit \in MaxFileLen..MaxLimit
    /\ chunk_size \in 1..MaxChunk
    /\ tpc = 0
    /\ fpc = <<>>
    /\ variant = "AdaptiveMarkov_Opt"
    /\ self_order = order
    /\ self_history_length = history_length

F_request ==
    /\ tpc < MaxRequests
    /\ \E fp \in DOMAIN hostfs : request_file(fp)
    /\ tpc' = tpc + 1

NextFifo == Worker \/ F_request

SpecFifo == InitFifo /\ [][NextFifo]_vars

\* ------------------------------------------------------ the predictors alone
\* A predictor of each class, driven through its own methods.
PredNames == {"a", "b", "c", "d"}

\* the longest history of a predictor of the class
LogBound(v) ==
    CASE v = "SWG_Opt" -> MaxSwgLogs
      [] v = "Markov_Opt" -> MaxMarkovLogs
      [] v = "AdaptiveMarkov_Opt" ->
            IF self_history_length < history_length THEN MaxWindowLogs ELSE MaxHistory

InitPred ==
    /\ root = <<"/">>
    /\ hostfs = <<>>
    /\ changed = {}
    /\ InitCacheManager
    /\ memory_limit = 0
    /\ chunk_size = 1
    /\ tpc = "none"
    /\ fpc = <<>>
    /\ variant \in Variants
    /\ self_order = order
    /\ self_history_length = history_length

\* OPTM.log_read(file_read)
P_log(file_read) ==
    /\ Len(history) < LogBound(variant)
    /\ LET l == OPTM_log_read(variant, history, transitions, file_read)
       IN  /\ history' = l.history
           /\ transitions' = l.transitions
    /\ ret' = [op |-> "log", path |-> file_read]
    /\ UNCHANGED <<fsVars, cfgVars, cacheVars, read_queue, workerVars, readVars, tpc>>

\* OPTM.predict_nexts(file_read), and OPTM.predict_nexts(file_read, 2) of the
\* class that takes it
P_predict(file_read, nargs) ==
    /\ nargs <= PredictParams(variant)
    /\ (variant = "Markov_Opt" /\ file_read # NoPath) => Len(history) < LogBound(variant)
    /\ LET p == OPTM_predict_nexts(variant, history, transitions, file_read, 2, nargs)
       IN  /\ history' = p.history
           /\ transitions' = p.transitions
           /\ ret' = [op |-> "predict", path |-> file_read, nargs |-> nargs,
                      predictions |-> p.predictions, raised |-> p.raised]
    /\ UNCHANGED <<fsVars, cfgVars, cacheVars, read_queue, workerVars, readVars, tpc>>

Log == \E n \in PredNames : P_log(VPath(n))

Predict == \E file_read \in {VPath(n) : n \in PredNames} \cup {NoPath}, nargs \in 1..2 :
               P_predict(file_read, nargs)

\* CACHE.is_in_cache(path) of the cache the filesystem was given
PredLookup == \E n \in PredNames : is_in_cache(VPath(n)) /\ UNCHANGED tpc

NextPred == Log \/ Predict \/ PredLookup

SpecPred == InitPred /\ [][NextPred]_vars

\* ------------------------------------------------- Markov_Opt(order=1) alone
InitBigram ==
    /\ root = <<"/">>
    /\ hostfs = <<>>
    /\ changed = {}
    /\ InitCacheManager
    /\ memory_limit = 0
    /\ chunk_size = 1
    /\ tpc = "none"
    /\ fpc = <<>>
    /\ variant = "Markov_Opt"
    /\ self_order = 1
    /\ self_history_length = history_length

SpecBigram == InitBigram /\ [][NextPred]_vars

\* --------------------------------- AdaptiveMarkov_Opt(history_length=3) alone
InitWindow ==
    /\ root = <<"/">>
    /\ hostfs = <<>>
    /\ changed = {}
    /\ InitCacheManager
    /\ memory_limit = 0
    /\ chunk_size = 1
    /\ tpc = "none"
    /\ fpc = <<>>
    /\ variant = "AdaptiveMarkov_Opt"
    /\ self_order = order
    /\ self_history_length = 3

SpecWindow == InitWindow /\ [][NextPred]_vars

\* ------------------------------------------------------- reads at the same time
\* FUSE runs read on several threads.  Each thread goes through the handler
\* line by line: the lookup and the read of the bytes (lines 72-78), the
\* check of line 57, log_read of line 58, and the prediction and its
\* requests (lines 60-68).
MaxThreads == 2

Threads == 1..MaxThreads

Idle == [pc |-> "idle", path |-> NoPath, buf |-> <<>>, logged |-> FALSE]

InitConc ==
    /\ root = <<"/">>
    /\ hostfs = [hp \in {VPath(n) : n \in ReadNames} |->
                    [exists |-> TRUE, content |-> FileBytes(hp, ReadLen(hp[Len(hp)]))]]
    /\ changed = {}
    /\ InitCacheManager
    /\ memory_limit = MaxLimit
    /\ chunk_size = MaxChunk
    /\ tpc = "none"
    /\ fpc = [t \in Threads |-> Idle]
    /\ variant \in Variants \ {"Markov_Opt"}
    /\ self_order = order
    /\ self_history_length = history_length

\* lines 72-78
T_read(t, path) ==
    /\ fpc[t].pc = "idle"
    /\ cache_lock = "free"
    /\ Len(history) + Cardinality({u \in Threads : fpc[u].pc # "idle"}) < MaxHistory
    /\ LET r == read_cache(cache, path, MaxFileLen, 0)
       IN  /\ cache' = r.cache
           /\ fpc' = [fpc EXCEPT ![t] =
                        [pc |-> "check", path |-> path, logged |-> FALSE,
                         buf |-> IF r.buf # <<>> THEN r.buf
                                 ELSE os_read(path, MaxFileLen, 0)]]
    /\ UNCHANGED <<fsVars, cfgVars, current_cache_size, cache_lock, read_queue,
                   workerVars, optVars, enable_opt, rpc, rargs, rbuf, ret, tpc>>

\* what read returns to the kernel
Returned(t, enabled, predicted, p, raised) ==
    [op |-> "read", path |-> fpc[t].path, size |-> MaxFileLen, offset |-> 0,
     enabled |-> enabled, logged |-> fpc[t].logged, predicted |-> predicted,
     predictions |-> p.predictions, type_error |-> p.raised,
     raised |-> raised, val |-> fpc[t].buf]

NoPrediction == [predictions |-> <<>>, raised |-> FALSE]

\* line 57
T_check(t) ==
    /\ fpc[t].pc = "check"
    /\ IF ShouldLog(history, fpc[t].path)
       THEN /\ fpc' = [fpc EXCEPT ![t].pc = "log"]
            /\ UNCHANGED ret
       ELSE /\ fpc' = [fpc EXCEPT ![t] = Idle]
            /\ ret' = Returned(t, enable_opt, FALSE, NoPrediction, FALSE)
    /\ UNCHANGED <<fsVars, cfgVars, cacheVars, read_queue, workerVars, optVars,
                   enable_opt, rpc, rargs, rbuf, tpc>>

\* line 58
T_log(t) ==
    /\ fpc[t].pc = "log"
    /\ LET l == OPTM_log_read(variant, history, transitions, fpc[t].path)
       IN  /\ history' = l.history
           /\ transitions' = l.transitions
    /\ fpc' = [fpc EXCEPT ![t].pc = "predict", ![t].logged = TRUE]
    /\ UNCHANGED <<fsVars, cfgVars, cacheVars, read_queue, workerVars,
                   enable_opt, rpc, rargs, rbuf, ret, tpc>>

\* lines 60-68 and the return of read
T_predict(t) ==
    /\ fpc[t].pc = "predict"
    /\ LET p == IF enable_opt
                THEN OPTM_predict_nexts(variant, history, transitions, fpc[t].path, 2, 2)
                ELSE [history |-> history, transitions |-> transitions,
                      predictions |-> <<>>, raised |-> FALSE]
           r == RequestAll(cache, read_queue, p.predictions)
       IN  /\ (\E i \in 1..Len(p.predictions) : NeedsLock(p.predictions[i])) =>
                  cache_lock = "free"
           /\ Len(r.queue) <= MaxQueue
           /\ history' = p.history
           /\ transitions' = p.transitions
           /\ cache' = r.cache
           /\ read_queue' = r.queue
           /\ ret' = Returned(t, enable_opt, enable_opt, p, p.raised \/ r.raised)
    /\ fpc' = [fpc EXCEPT ![t] = Idle]
    /\ UNCHANGED <<fsVars, cfgVars, current_cache_size, cache_lock, workerVars,
                   enable_opt, rpc, rargs, rbuf, tpc>>

ConcRead == \E t \in Threads :
    \/ \E n \in ReadNames : T_read(t, VPath(n))
    \/ T_check(t)
    \/ T_log(t)
    \/ T_predict(t)

NextConc == Worker \/ ConcRead \/ enable

SpecConc == InitConc /\ [][NextConc]_vars

\* ================================================================== claims

Unchanged(hp) == hp \notin changed

\* The data and the recorded size of an entry are those of its whole file.
Whole(e) == /\ exists(e.key)
            /\ e.data = hostfs[e.key].content
            /\ e.size = Len(hostfs[e.key].content)

\* C1: whenever the cache lock is not held, the running byte total is at
\* most the memory budget.
C1_TotalWithinBudget ==
    cache_lock = "free" => current_cache_size <= memory_limit

\* The lock is free, the worker is in the middle of a load, and the cache
\* holds several entries that fill the budget exactly.
C1_Witness ==
    /\ cache_lock = "free"
    /\ wpc = "read"
    /\ Len(cache) >= 2
    /\ current_cache_size = memory_limit

\* C2: whenever the cache lock is not held, the running byte total is the
\* sum of the recorded sizes of the entries in the cache.
C2_TotalIsSumOfSizes ==
    cache_lock = "free" => current_cache_size = SumSizes(cache)

\* A reload has added the chunks of a changed file to the size of the entry
\* that was already there, next to another entry.
C2_Witness ==
    /\ cache_lock = "free"
    /\ Len(cache) >= 2
    /\ \E i \in 1..Len(cache) : cache[i].size > Len(cache[i].data)

\* C3: whenever a lookup can take the cache lock, every entry of the cache
\* holds the whole of its (unchanged) file: no entry holds a prefix only.
C3_WholeFileCaching ==
    cache_lock = "free" =>
        \A i \in 1..Len(cache) : Unchanged(cache[i].key) => Whole(cache[i])

\* C6: an eviction removes the entry at the old end of the order, and the
\* entry the worker is inserting is evicted only when it is the last one left.
C6_StrictLRU ==
    [][(wpc = "evict" /\ Len(cache') < Len(cache)) =>
          /\ cache' = Tail(cache)
          /\ current_cache_size' = current_cache_size - cache[1].size
          /\ (cache[1].key = filepath => Len(cache) = 1)]_vars

\* Two entries older than the one being inserted, and the budget exceeded:
\* the worker is about to evict.
C6_Witness ==
    /\ wpc = "evict"
    /\ Len(cache) >= 3
    /\ current_cache_size > memory_limit
    /\ cache[Len(cache)].key = filepath

\* C7: once the worker has finished with a request for an existing file of
\* size 0 <= s <= memory budget, the path is resident.
C7_ResidentAfterFetch ==
    (/\ wpc = "get"
     /\ filepath # NoPath
     /\ Unchanged(filepath)
     /\ exists(filepath)
     /\ getsize(filepath) <= memory_limit) => filepath \in Keys(cache)

\* C9: the cache never holds an entry, whole or partial, of a file larger
\* than the memory budget.
C9_NoOversizeEntry ==
    cache_lock = "free" =>
        \A i \in 1..Len(cache) :
            exists(cache[i].key) => getsize(cache[i].key) <= memory_limit

\* The path is resident and the size recorded for it is the size of its file.
ResidentSameSize(fp) ==
    /\ fp \in Keys(cache)
    /\ exists(fp)
    /\ getsize(fp) = Entry(cache, fp).size

\* The step changes the cache in the place of fp only: fp is the youngest
\* entry, and no entry, no size and no total has changed.
OnlyTouched(fp) ==
    /\ Len(cache') = Len(cache)
    /\ cache'[Len(cache')] = Entry(cache, fp)
    /\ Without(cache', fp) = Without(cache, fp)
    /\ current_cache_size' = current_cache_size
    /\ cache_lock' = cache_lock

\* C10: a request for, or the fetch of, a path that is resident with the size
\* of its file changes nothing but the order: the path becomes the youngest
\* entry, and the request is not queued.
C10_ResidentIsOnlyTouched ==
    [][\A fp \in DOMAIN hostfs :
          /\ (request_file(fp) /\ ResidentSameSize(fp)) =>
                 (OnlyTouched(fp) /\ read_queue' = read_queue)
          /\ (W_check /\ filepath = fp /\ ResidentSameSize(fp)) =>
                 (OnlyTouched(fp) /\ wpc' = "get")]_vars

\* The worker's last insertion made the path it is loading the youngest
\* entry; a request has since found another path resident and made it the
\* youngest.
C10_Witness ==
    /\ wpc = "read"
    /\ cache_lock = "free"
    /\ filepath \in Keys(cache)
    /\ cache[Len(cache)].key # filepath
    /\ ResidentSameSize(cache[Len(cache)].key)

\* C4: the bytes a read returns are empty or are the bytes [offset, offset+size)
\* of the (unchanged) backing file, from the cache or from the descriptor.
C4_ReadReturnsFileBytes ==
    (ret.op = "read" /\ ~ret.raised /\ Unchanged(full_path(ret.path))) =>
        \/ ret.val = <<>>
        \/ ret.val = Slice(hostfs[full_path(ret.path)].content, ret.offset, ret.size)

Range(f) == {f[i] : i \in DOMAIN f}

\* The file of the mount a virtual path names exists, is not empty and fits
\* the memory budget.
Cacheable(path) ==
    /\ exists(full_path(path))
    /\ getsize(full_path(path)) > 0
    /\ getsize(full_path(path)) <= memory_limit

\* C8: with prefetch enabled, once a read of foo has predicted bar (a file
\* of the mount that fits the budget), bar becomes resident under the key a
\* read of bar looks up.  A fairly scheduled worker makes resident what has
\* been requested, so for as long as the read of foo is the last read, bar
\* is resident, or queued, or being fetched.
foo == VPath("a")
bar == VPath("b")

ReadOfFooPredictedBar ==
    /\ ret.op = "read"
    /\ ret.path = foo
    /\ bar \in Range(ret.predictions)
    /\ Cacheable(bar)

\* bar is resident, or its request is queued or in the worker's hands
ResidentOrOnItsWay(path) ==
    \/ path \in Keys(cache)
    \/ path \in Range(read_queue)
    \/ (filepath = path /\ wpc \in {"check", "open", "read", "insert", "evict"})

C8_PredictedBecomesResident == ReadOfFooPredictedBar => ResidentOrOnItsWay(bar)

\* C5: a lookup that hits touches recency: with a budget of three files, after
\* a, b and c are cached, a is looked up and d is cached, the residents are
\* c, d and a, b is evicted, and the total is the budget.
C5_LookupTouchesRecency ==
    (tpc = "done" /\ WorkerIdle /\ filepath = LruPath("d")) =>
        /\ Keys(cache) = {LruPath("c"), LruPath("d"), LruPath("a")}
        /\ LruPath("b") \notin Keys(cache)
        /\ current_cache_size = memory_limit

\* C11: the fetch queue is FIFO and permits duplicates.  A request for a path
\* that is not resident is put at the tail of the queue, the same path being
\* in the queue already or not; the worker takes the head; a path that is
\* resident when its turn comes is not opened again; no path has two
\* entries, and with the worker idle the total is the sum of the sizes of the
\* resident files.
C11_FifoWithDuplicates ==
    /\ [](\A i, j \in 1..Len(cache) : cache[i].key = cache[j].key => i = j)
    /\ []((WorkerIdle /\ cache_lock = "free") =>
             current_cache_size = SumSizes([i \in 1..Len(cache) |->
                                              [size |-> getsize(cache[i].key)]]))
    /\ [][(\A fp \in DOMAIN hostfs :
               (request_file(fp) /\ fp \notin Keys(cache)) =>
                   (read_queue' = read_queue \o <<fp>>))
           /\ (Len(read_queue') < Len(read_queue) =>
                   (filepath' = read_queue[1] /\ read_queue' = Tail(read_queue)))
           /\ ((wpc = "check" /\ wpc' = "open") => filepath \notin Keys(cache))]_vars

\* The worker has loaded a path, has taken the second request for it from the
\* queue and finds it resident, while a third request for it still waits.
C11_Witness ==
    /\ wpc = "check"
    /\ cache_lock = "free"
    /\ ResidentSameSize(filepath)
    /\ read_queue = <<filepath>>

\* C12: no error while the worker processes an item ends the worker.
C12_WorkerNeverTerminates == wpc # "dead"

\* C13: read never surfaces a failure of prediction or of prefetch dispatch:
\* every read returns the bytes it obtained.
C13_ReadSurfacesNoPrefetchFailure == ret.op = "read" => ~ret.raised

\* C14: whatever the class of the predictor, the handler's call of
\* predict_nexts is accepted and does not raise.
C14_PredictorsInterchangeable ==
    \A v \in Variants :
        (variant = v /\ ret.op = "read" /\ ret.predicted) => ~ret.type_error

\* C15: every read handled with optimizations enabled calls predict_nexts,
\* a read of the path read just before included.
C15_EveryEnabledReadPredicts ==
    (ret.op = "read" /\ ret.enabled) => ret.predicted

\* the entries of the cache, their order aside
Contents(c) == {c[i] : i \in 1..Len(c)}

\* C16: optimizations are disabled at construction; a read handled while
\* they are disabled leaves the fetch queue and the contents of the cache as
\* they are; only the command enable changes the flag, and it inverts it, so
\* that two commands restore it.
C16_DisabledReadsPrefetchNothing ==
    /\ enable_opt = FALSE
    /\ [][((rpc = "idle" /\ rpc' = "log") =>
                 (read_queue' = read_queue /\ Contents(cache') = Contents(cache)))
           /\ ((rpc = "log" /\ rpc' = "idle" /\ ~enable_opt) =>
                 (read_queue' = read_queue /\ cache' = cache))
           /\ ((enable_opt' # enable_opt) =>
                 (enable /\ enable_opt' = ~enable_opt))]_vars

\* A read was logged while optimizations were disabled, for which the adaptive
\* predictor had a prediction to give: nothing was requested.
C16_Witness ==
    /\ ret.op = "read"
    /\ ~ret.enabled
    /\ ret.logged
    /\ variant = "AdaptiveMarkov_Opt"
    /\ predict_nexts(history, transitions, ret.path, 2) # <<>>
    /\ read_queue = <<>>

\* C17: for reads handled one at a time, the history never has two equal
\* adjacent entries, and it grows by at most one entry per read handled.
C17_HistoryCollapsesRepeats ==
    /\ [](\A i \in 1..(Len(history) - 1) : history[i] # history[i + 1])
    /\ [][(Len(history') <= Len(history) + 1)
           /\ ((history' # history) => (rpc = "log" /\ rpc' = "idle"))]_vars

\* The read of the path that was read just before has been handled and was
\* not logged.
C17_Witness ==
    /\ ret.op = "read"
    /\ ~ret.logged
    /\ history # <<>>
    /\ history[Len(history)] = ret.path

\* C18: log_read is idempotent on immediate duplicates: logging the path
\* that is the last entry of the history leaves the history and the model
\* as they are, whatever the class of the predictor.
C18_LogIdempotentOnRepeat ==
    [][(ret'.op = "log" /\ history # <<>> /\ history[Len(history)] = ret'.path) =>
           (history' = history /\ transitions' = transitions)]_vars

\* C19: predict_nexts does not log: it leaves the history and the model as
\* they are, whatever the class of the predictor and the context path.
C19_PredictDoesNotLog ==
    [][(ret'.op = "predict") =>
           (history' = history /\ transitions' = transitions)]_vars

\* C20: the weights of the successor graph are positive integers, and
\* predict_nexts(p) returns None exactly when p has no outgoing edge.
C20_SwgWeightsAndSilence ==
    variant = "SWG_Opt" =>
        /\ \A i \in 1..Len(transitions) : transitions[i].w \in Nat \ {0}
        /\ (ret.op = "predict" =>
               ((ret.predictions = <<>>) <=>
                   ~(\E i \in 1..Len(transitions) : transitions[i].src = ret.path)))

\* The graph has an edge seen once and an edge seen twice, and predict_nexts
\* has returned the successor of a path with one edge seen once.
C20_Witness ==
    /\ variant = "SWG_Opt"
    /\ \E i \in 1..Len(transitions) : transitions[i].w = 2
    /\ ret.op = "predict"
    /\ ret.predictions # <<>>
    /\ \A i \in 1..Len(transitions) :
           transitions[i].src = ret.path => transitions[i].w = 1

\* C21: every weight of the adaptive predictor's transition table is >= 0,
\* and predict_nexts(c, k) never returns c, alone or in its list.
C21_AdaptiveNoSelfPrediction ==
    variant = "AdaptiveMarkov_Opt" =>
        /\ \A i \in 1..Len(transitions) : transitions[i].w >= 0
        /\ (ret.op = "predict" /\ ret.path # NoPath) =>
               (\A i \in 1..Len(ret.predictions) : ret.predictions[i] # ret.path)

\* predict_nexts(c, 2) has returned a list although the last file of the
\* history has a transition to c: c had a score and was removed.
C21_Witness ==
    /\ variant = "AdaptiveMarkov_Opt"
    /\ ret.op = "predict"
    /\ ret.nargs = 2
    /\ ret.path # NoPath
    /\ ret.predictions # <<>>
    /\ history # <<>>
    /\ HasEdge(transitions, history[Len(history)], ret.path)

\* C22: predict_nexts of a predictor with an empty history, with a context
\* path or with None, returns None and does not raise, whatever the class;
\* is_in_cache of a path that is not resident returns None.
C22_EmptyHistoryAndMissAreNone ==
    [][((ret'.op = "predict" /\ history = <<>>) =>
            (ret'.predictions = <<>> /\ ~ret'.raised))
       /\ ((ret'.op = "is_in_cache" /\ ret'.path \notin Keys(cache)) =>
            (ret'.val.kind = "none" /\ ret'.val.data = <<>> /\ ret'.val.size = 0))]_vars

\* Markov_Opt.predict_nexts(c) was called on an empty history: it logged c,
\* counted no transition and returned None.
C22_Witness ==
    /\ variant = "Markov_Opt"
    /\ ret.op = "predict"
    /\ ret.path # NoPath
    /\ history = <<ret.path>>
    /\ transitions = <<>>
    /\ ret.predictions = <<>>
    /\ ~ret.raised

\* C23: with several threads executing read at the same time and a
\* predictor whose predict_nexts does not log, the history has no two equal
\* adjacent entries.
C23_ConcurrentHistoryConsistent ==
    \A i \in 1..(Len(history) - 1) : history[i] # history[i + 1]

\* the cache map without the buffers: the keys in order and their sizes
MapOf(c) == [i \in 1..Len(c) |-> [key |-> c[i].key, size |-> c[i].size]]

\* C24: the read path never waits for the fetch worker.  The cache lock is the
\* only lock.  The worker keeps it across steps only between the insertion of
\* a chunk and the end of the eviction loop, never while it waits on the queue
\* or reads the file; while it holds the lock it can always take its next
\* step, and every step of the program that keeps the lock evicts an entry
\* (only the host's files can change meanwhile), so the lock is released after
\* at most as many steps as there are entries.  The map and the total change
\* only in a step that finds the lock free and takes it, or in an eviction of
\* the worker that holds it.
C24_ReadPathNeverBlocks ==
    /\ [](cache_lock = "worker" => (wpc = "evict" /\ ENABLED W_evict))
    /\ [](cache_lock \in {"free", "worker"})
    /\ [][((cache_lock = "worker" /\ cache_lock' = "worker" /\ UNCHANGED fsVars) =>
                Len(cache') < Len(cache))
           /\ ((MapOf(cache') # MapOf(cache) \/ current_cache_size' # current_cache_size) =>
                (\/ cache_lock = "free"
                 \/ (cache_lock = "worker" /\ wpc = "evict"
                        /\ cache' = popitem(cache).rest)))]_vars

\* The worker is between two chunks of a file whose first chunk is in the
\* cache, and the lock is free.
C24_Witness ==
    /\ wpc = "read"
    /\ cache_lock = "free"
    /\ filepath \in Keys(cache)
    /\ exists(filepath)
    /\ Entry(cache, filepath).size < getsize(filepath)
    /\ fpos < getsize(filepath)

\* what a read of path does to the predictor and asks of the cache, from the
\* predictor's state and the switch alone
ReadEffects(v, h, t, enabled, path) ==
    LET logs == last_file_read(h, NoPath) # path
        l == IF logs THEN OPTM_log_read(v, h, t, path)
             ELSE [history |-> h, transitions |-> t]
    IN  IF logs /\ enabled
        THEN [logged |-> logs] @@ OPTM_predict_nexts(v, l.history, l.transitions, path, 2, 2)
        ELSE [logged |-> logs, history |-> l.history, transitions |-> l.transitions,
              predictions |-> <<>>, raised |-> FALSE]

\* C25: what a read logs and which paths it passes to request_file are
\* determined by the predictor's state, the switch and the path read, the
\* same whether the cache served the read or the backing file did.
C25_HitAndMissLearnAlike ==
    [][(rpc = "log" /\ rpc' = "idle") =>
        LET e == ReadEffects(variant, history, transitions, enable_opt, rargs.path)
        IN  /\ ret'.hit = rargs.hit
            /\ ret'.logged = e.logged
            /\ history' = e.history
            /\ transitions' = e.transitions
            /\ ret'.predictions = e.predictions]_vars

\* A read served by the cache was logged and a prediction was passed to
\* request_file.
C25_Witness ==
    /\ ret.op = "read"
    /\ ret.hit
    /\ ret.val # <<>>
    /\ ret.logged
    /\ ret.predictions # <<>>

\* C26: with a memory budget of 0 and the host's files left alone, the cache
\* map is empty and the total is 0 in every state, whatever is requested and
\* whatever the worker does, and every lookup misses; if files change under
\* the cache the same holds whenever the lock is free.
C26_ZeroBudgetCachesNothing ==
    (memory_limit = 0 /\ (changed = {} \/ cache_lock = "free")) =>
               /\ cache = <<>>
               /\ current_cache_size = 0
               /\ \A fp \in DOMAIN hostfs : LookupValue(cache, fp).kind = "none"

\* With budget 0 the worker took the request of an empty file and finished
\* with it.
C26_Witness ==
    /\ memory_limit = 0
    /\ changed = {}
    /\ filepath # NoPath
    /\ exists(filepath)
    /\ getsize(filepath) = 0
    /\ wpc = "get"
    /\ cache = <<>>

\* the weight of the edge src -> dst, 0 if there is none
Weight(g, src, dst) ==
    IF HasEdge(g, src, dst)
    THEN g[CHOOSE i \in 1..Len(g) : g[i].src = src /\ g[i].dst = dst].w
    ELSE 0

\* the paths a predictor has met
Met == {history[i] : i \in 1..Len(history)} \cup {VPath(n) : n \in PredNames}

\* C27: log(current) of the successor graph adds exactly 1 to the weight of
\* the edge prev -> current, prev being the most recent entry of the history
\* that is not current, an edge that did not exist starting at 1; every other
\* edge keeps its weight and its place, and without such a prev the graph is
\* unchanged.
C27_SwgUpdate ==
    [][(variant = "SWG_Opt" /\ ret'.op = "log" /\ Len(history') = Len(history) + 1) =>
        LET current == ret'.path
            older == {i \in 1..Len(history) : history[i] # current}
            prev == IF older = {} THEN NoPath
                    ELSE history[CHOOSE i \in older : \A j \in older : j <= i]
        IN  /\ history' = Append(history, current)
            /\ (prev = NoPath) => (transitions' = transitions)
            /\ (prev # NoPath) =>
                   (/\ \A a \in Met, b \in Met :
                         Weight(transitions', a, b) =
                             Weight(transitions, a, b)
                                 + (IF a = prev /\ b = current THEN 1 ELSE 0)
                    /\ Len(transitions') =
                         Len(transitions) + (IF HasEdge(transitions, prev, current) THEN 0 ELSE 1)
                    /\ \A i \in 1..Len(transitions) :
                         /\ transitions'[i].src = transitions[i].src
                         /\ transitions'[i].dst = transitions[i].dst)]_vars

\* A path was logged twice in a row after another one: the edge from the
\* other one has weight 2 and the path has no edge to itself.
C27_Witness ==
    /\ variant = "SWG_Opt"
    /\ ret.op = "log"
    /\ Len(history) >= 3
    /\ history[Len(history)] = ret.path
    /\ history[Len(history) - 1] = ret.path
    /\ history[Len(history) - 2] # ret.path
    /\ Weight(transitions, history[Len(history) - 2], ret.path) = 2
    /\ ~HasEdge(transitions, ret.path, ret.path)

\* C28: predict(c) of the successor graph returns the successor of c of the
\* greatest weight, the one whose edge was created first among those of the
\* greatest weight, and nothing when c has no successor; after the log of
\* a, b, a, b, a, c it returns b for a and nothing for c.
C28_SwgPredict ==
    (variant = "SWG_Opt" /\ ret.op = "predict" /\ ~ret.raised) =>
        LET succ == {i \in 1..Len(transitions) : transitions[i].src = ret.path}
            top == {i \in succ : \A j \in succ : transitions[j].w <= transitions[i].w}
        IN  /\ (succ = {}) => (ret.predictions = <<>>)
            /\ (succ # {}) =>
                   (ret.predictions =
                       <<transitions[CHOOSE i \in top : \A j \in top : i <= j].dst>>)
            /\ (history = <<VPath("a"), VPath("b"), VPath("a"), VPath("b"),
                            VPath("a"), VPath("c")>>) =>
                   (/\ (ret.path = VPath("a")) => (ret.predictions = <<VPath("b")>>)
                    /\ (ret.path = VPath("c")) => (ret.predictions = <<>>))

\* After the log of a, b, a, b, a, c the successor graph has a -> b at 2 and
\* a -> c at 1, and predict(a) returned b.
C28_Witness ==
    /\ variant = "SWG_Opt"
    /\ history = <<VPath("a"), VPath("b"), VPath("a"), VPath("b"), VPath("a"), VPath("c")>>
    /\ Weight(transitions, VPath("a"), VPath("b")) = 2
    /\ Weight(transitions, VPath("a"), VPath("c")) = 1
    /\ ret.op = "predict"
    /\ ret.path = VPath("a")
    /\ ret.predictions = <<VPath("b")>>

\* C29: log(current) of the decayed Markov predictor, for each n from 1 to
\* the smaller of the order and the length of the history, takes the row keyed
\* by the n - 1 entries that precede current (the empty tuple for n = 1), adds
\* one to the count of current in it and multiplies the count of every other
\* successor of the row by the decay factor; no other row changes.
C29_MarkovUpdateByShorterContext ==
    [][(variant = "Markov_Opt" /\ ret'.op = "log" /\ Len(history') = Len(history) + 1) =>
        LET current == ret'.path
            ctxs == {LastN(history, n - 1) : n \in 1..Min(order, Len(history))}
        IN  /\ \A ctx \in ctxs :
                  /\ Weight(transitions', ctx, current) =
                         Weight(transitions, ctx, current) + CountOne
                  /\ \A b \in Met \ {current} :
                         Weight(transitions', ctx, b) =
                             (Weight(transitions, ctx, b) \div decay_factor_den)
                                 * decay_factor_num
            /\ \A i \in 1..Len(transitions') :
                  (transitions'[i].src \notin ctxs) =>
                      (i <= Len(transitions) /\ transitions'[i] = transitions[i])]_vars

\* C30: the prediction of the decayed Markov predictor is the successor of
\* the greatest count in the row keyed by the longest suffix of the history,
\* of at most order entries, that keys a row; a shorter suffix decides only
\* when no longer one keys a row.  With order 3, after the log of a, b, c, d
\* the prediction for c is d.
C30_MarkovPredictLongestContext ==
    (variant = "Markov_Opt" /\ ret.op = "predict" /\ ~ret.raised) =>
        LET row(n) == {i \in 1..Len(transitions) : transitions[i].src = LastN(history, n)}
            ns == {n \in 1..Min(order, Len(history)) : row(n) # {}}
            longest == CHOOSE n \in ns : \A m \in ns : m <= n
            top == {i \in row(longest) :
                       \A j \in row(longest) : transitions[j].w <= transitions[i].w}
        IN  /\ (ns # {}) =>
                   (ret.predictions =
                       <<transitions[CHOOSE i \in top : \A j \in top : i <= j].dst>>)
            /\ (/\ history = <<VPath("a"), VPath("b"), VPath("c"), VPath("d"), VPath("c")>>
                 /\ ret.path = VPath("c")) =>
                   (ret.predictions = <<VPath("d")>>)

\* After the log of a, b, c, d the predictor was asked for the successor of
\* c and answered d.
C30_Witness ==
    /\ variant = "Markov_Opt"
    /\ ret.op = "predict"
    /\ ret.path = VPath("c")
    /\ history = <<VPath("a"), VPath("b"), VPath("c"), VPath("d"), VPath("c")>>
    /\ HasEdge(transitions, <<VPath("a"), VPath("b"), VPath("c")>>, VPath("d"))
    /\ ret.predictions = <<VPath("d")>>

\* the sum of the counts of dst over all the rows of the table
RECURSIVE Total(_, _)
Total(t, dst) ==
    IF t = <<>> THEN 0
    ELSE (IF Head(t).dst = dst THEN Head(t).w ELSE 0) + Total(Tail(t), dst)

\* no suffix of the history, of order entries or fewer, keys a row
NoContextKeysRow ==
    \A n \in 1..Min(order, Len(history)) :
        \A i \in 1..Len(transitions) : transitions[i].src # LastN(history, n)

\* C31: when no suffix of the history keys a row, the prediction of the
\* decayed Markov predictor is a path whose count summed over all the rows is
\* the greatest; the predictor answers nothing only when the table has no
\* successor at all.
C31_MarkovFallback ==
    (variant = "Markov_Opt" /\ ret.op = "predict" /\ ~ret.raised) =>
        /\ (ret.predictions = <<>>) <=> (transitions = <<>>)
        /\ Len(ret.predictions) <= 1
        /\ (NoContextKeysRow /\ transitions # <<>>) =>
               (/\ Total(transitions, ret.predictions[1]) > 0
                /\ \A q \in Met :
                      Total(transitions, q) <= Total(transitions, ret.predictions[1]))

\* No suffix of the history keys a row, and the answer is the successor of
\* the greatest total, which is not the first one the table got.
C31_Witness ==
    /\ variant = "Markov_Opt"
    /\ ret.op = "predict"
    /\ NoContextKeysRow
    /\ transitions # <<>>
    /\ ret.predictions # <<>>
    /\ ret.predictions[1] # transitions[1].dst
    /\ Total(transitions, transitions[1].dst) < Total(transitions, ret.predictions[1])

\* path b was logged right after path a
LoggedAfter(a, b) ==
    \E i \in 1..(Len(history) - 1) : history[i] = a /\ history[i + 1] = b

WeightOne == learning_rate_den * Pow(decay_den, history_length - 1)

\* the sum of learning_rate * decay ** (W - 1 - i) over the places of the
\* window, from place i on, that hold prev (place 1 is index 0)
RECURSIVE Increment(_, _, _)
Increment(window, prev, i) ==
    IF i > Len(window) THEN 0
    ELSE (IF window[i] = prev THEN learning_rate_num * Influence(Len(window) - i) ELSE 0)
            + Increment(window, prev, i + 1)

\* C33: log(current) of the adaptive predictor takes the window of the last
\* history_length entries that precede current, W of them; each entry of the
\* window that is not current adds learning_rate * decay ** (W - 1 - i) to
\* the weight from it to current, i being its index from the oldest, and no
\* other weight changes; a more recent entry never adds less than an older
\* one.  With history_length 3, rate 0.1 and decay 0.9, the log of d after
\* a, b, c adds 0.081 to a -> d, 0.09 to b -> d and 0.1 to c -> d.
C33_AdaptiveUpdate ==
    [][(variant = "AdaptiveMarkov_Opt" /\ ret'.op = "log"
            /\ Len(history') = Len(history) + 1) =>
        LET current == ret'.path
            window == LastN(history, self_history_length)
            W == Len(window)
            added(a, b) == Weight(transitions', a, b) - Weight(transitions, a, b)
        IN  /\ W <= self_history_length
            /\ history' = Append(history, current)
            /\ \A a \in Met, b \in Met :
                  added(a, b) = IF b = current /\ a # current
                                THEN Increment(window, a, 1) ELSE 0
            /\ \A i \in 1..W, j \in 1..W :
                  (i < j) => (Influence(W - i) <= Influence(W - j))
            /\ (/\ self_history_length = 3
                 /\ history = <<VPath("a"), VPath("b"), VPath("c")>>
                 /\ current = VPath("d")) =>
                   (/\ 1000 * added(VPath("a"), VPath("d")) = 81 * WeightOne
                    /\ 100 * added(VPath("b"), VPath("d")) = 9 * WeightOne
                    /\ 10 * added(VPath("c"), VPath("d")) = WeightOne)]_vars

\* With a window of 3, a fifth path was logged: the first one of the history
\* is outside the window and has no weight to it, and the three in the window
\* have.
C33_Witness ==
    /\ variant = "AdaptiveMarkov_Opt"
    /\ self_history_length = 3
    /\ ret.op = "log"
    /\ Len(history) = 5
    /\ history[5] = ret.path
    /\ history[1] \notin {history[2], history[3], history[4], history[5]}
    /\ ~HasEdge(transitions, history[1], history[5])
    /\ history[2] = history[4]
    /\ Weight(transitions, history[2], history[5])
          = learning_rate_num * (Influence(2) + Influence(0))
    /\ Weight(transitions, history[3], history[5]) = learning_rate_num * Influence(1)

\* the recency-weighted score of dst: the weights to it from the entries of
\* the window, from place i on, each times decay ** (distance from the end)
RECURSIVE ScoreOf(_, _, _, _)
ScoreOf(t, window, dst, i) ==
    IF i > Len(window) THEN 0
    ELSE Weight(t, window[i], dst) * Influence(Len(window) - i)
            + ScoreOf(t, window, dst, i + 1)

C35_EntriesImmutable ==
    /\ [](cache_lock = "free" =>
             \A i \in 1..Len(cache) : cache[i].size = Len(cache[i].data))
    /\ [][\A k \in Keys(cache) \cap Keys(cache') :
             /\ Entry(cache', k).data = Entry(cache, k).data
             /\ Entry(cache', k).size = Entry(cache, k).size]_vars

====
